---- MODULE Spec2Model ----
(***************************************************************************)
(* A model of autocxx's additional C++ generator                           *)
(* (engine/src/additional_cpp_generator.rs) and of the Rust-side          *)
(* conversions of a TypeConversionPolicy                                   *)
(* (engine/src/conversion/codegen_rs/function_wrapper_rs.rs).              *)
(*                                                                         *)
(* Generated text is a sequence of string pieces: every format!/quote!    *)
(* of the source becomes the concatenation of its literal pieces and its   *)
(* interpolated values, so that order and number of occurrences can be     *)
(* read off the result.                                                    *)
(***************************************************************************)
EXTENDS Integers, Sequences, FiniteSets, TLC

VARIABLES
    additional_functions, \* AdditionalCppGenerator.additional_functions
    inclusions,           \* AdditionalCppGenerator.inclusions
    submitted,            \* history: every need handed to add_needs, in order
    generated,            \* history: the latest return value of generate
    previous,             \* history: the return value of generate before that
    policy,               \* the TypeConversionPolicy given to the Rust conversions
    var,                  \* rust_conversion's `var: Pat`
    wrap_in_unsafe,       \* rust_conversion's `wrap_in_unsafe: bool`
    unconverted,          \* outcome of rust_wrapper_unconverted_type
    conversion_rs         \* outcome of rust_conversion

vars == <<additional_functions, inclusions, submitted, generated, previous,
          policy, var, wrap_in_unsafe, unconverted, conversion_rs>>

gen_vars == <<additional_functions, inclusions, submitted, generated, previous>>

conv_vars == <<policy, var, wrap_in_unsafe, unconverted, conversion_rs>>

----------------------------------------------------------------------------
(* Bounds *)

MaxNeeds == 2

MaxBatch == 2

MaxArgs == 2

MaxCalls == 2

----------------------------------------------------------------------------
(* Option and sequence helpers *)

None == [some |-> FALSE]

Some(v) == [some |-> TRUE, value |-> v]

RECURSIVE Flatten(_)
Flatten(ss) ==
    IF ss = <<>> THEN <<>> ELSE Head(ss) \o Flatten(Tail(ss))

RECURSIVE Join(_, _)
Join(items, sep) ==
    IF items = <<>> THEN <<>>
    ELSE IF Len(items) = 1 THEN Head(items)
    ELSE Head(items) \o <<sep>> \o Join(Tail(items), sep)

Range(s) == {s[i] : i \in 1..Len(s)}

Count(x, s) == Cardinality({i \in 1..Len(s) : s[i] = x})

SeqsUpTo(S, n) == UNION {[1..k -> S] : k \in 0..n}

----------------------------------------------------------------------------
(* Header *)

system(name) == [name |-> name, system |-> TRUE]

user(name) == [name |-> name, system |-> FALSE]

include_stmt(h) ==
    IF h.system
    THEN "#include <" \o h.name \o ">"
    ELSE "#include \"" \o h.name \o "\""

----------------------------------------------------------------------------
(* TypeConversionPolicy, C++ side, and the type database.  They are        *)
(* defined in crate::function_wrapper and crate::type_database and are     *)
(* modelled from the design's description: a policy carries an unwrapped   *)
(* type and a conversion tag, the pass-through tag renders the argument    *)
(* name unchanged, any other tag renders an expression around it.          *)

resolve(type_id) ==
    IF type_id = "A" THEN "ns::A" ELSE type_id

wrapped_type(p) == "std::unique_ptr<" \o resolve(p.unwrapped_type) \o ">"

unconverted_type(p) ==
    IF p.cpp_conversion = "FromUniquePtrToValue"
    THEN wrapped_type(p)
    ELSE resolve(p.unwrapped_type)

converted_type(p) ==
    IF p.cpp_conversion = "FromValueToUniquePtr"
    THEN wrapped_type(p)
    ELSE resolve(p.unwrapped_type)

conversion(p, var_name) ==
    CASE p.cpp_conversion = "None" -> var_name
      [] p.cpp_conversion = "FromUniquePtrToValue" ->
            <<"std::move(*">> \o var_name \o <<")">>
      [] p.cpp_conversion = "FromValueToUniquePtr" ->
            <<"std::make_unique<", resolve(p.unwrapped_type), ">(">>
                \o var_name \o <<")">>

----------------------------------------------------------------------------
(* AdditionalCppGenerator *)

AdditionalFunction(declaration, definition, headers) ==
    [declaration |-> declaration, definition |-> definition, headers |-> headers]

generate_string_constructor ==
    LET declaration == <<"std::unique_ptr<std::string> make_string(::rust::Str str)">>
        definition == declaration
            \o <<" { return std::make_unique<std::string>(std::string(str)); }">>
    IN  AdditionalFunction(declaration \o <<";">>, definition,
            <<system("memory"), system("string"), user("cxx.h")>>)

\* get_arg_name without the receiver's name
get_arg_name_plain(is_a_method, counter) == "arg" \o ToString(counter)

\* the closure get_arg_name; counter counts from 0 as enumerate() does
get_arg_name(is_a_method, counter) ==
    IF is_a_method /\ counter = 0
    THEN "autocxx_gen_this"
    ELSE "arg" \o ToString(counter)

\* `args`: the parameter list of the declaration
wrapper_args(details) ==
    Join([i \in 1..Len(details.argument_conversion) |->
            <<unconverted_type(details.argument_conversion[i]), " ",
              get_arg_name(details.is_a_method, i - 1)>>], ", ")

ret_type(details) ==
    IF details.return_conversion.some
    THEN converted_type(details.return_conversion.value)
    ELSE "void"

wrapper_declaration(details) ==
    <<ret_type(details), " ", details.wrapper_function_name, "(">>
        \o wrapper_args(details) \o <<")">>

\* the iterator `arg_list` before anything is taken from it
converted_args(details) ==
    [i \in 1..Len(details.argument_conversion) |->
        conversion(details.argument_conversion[i],
                   <<get_arg_name(details.is_a_method, i - 1)>>)]

\* `receiver`: arg_list.next() when is_a_method, which is None on an empty list
receiver(details) ==
    IF details.is_a_method /\ converted_args(details) # <<>>
    THEN Some(Head(converted_args(details)))
    ELSE None

\* `arg_list` after the receiver was taken from the iterator, joined
arg_list(details) ==
    LET all == converted_args(details)
        rest == IF details.is_a_method /\ all # <<>> THEN Tail(all) ELSE all
    IN  Join(rest, ", ")

qualified(path) == Join([i \in 1..Len(path) |-> <<path[i]>>], "::")

underlying_function_call(details) ==
    LET payload == details.payload
    IN  CASE payload.kind = "Constructor" -> arg_list(details)
          [] payload.kind = "FunctionCall" ->
                IF receiver(details).some
                THEN receiver(details).value \o <<".", payload.id, "(">>
                        \o arg_list(details) \o <<")">>
                ELSE qualified(payload.ns \o <<payload.id>>) \o <<"(">>
                        \o arg_list(details) \o <<")">>
          [] payload.kind = "StaticMethodCall" ->
                qualified(payload.ns \o <<payload.ty_id, payload.fn_id>>) \o <<"(">>
                    \o arg_list(details) \o <<")">>

\* the call after `if let Some(ret) = details.return_conversion`
wrapped_call(details) ==
    IF details.return_conversion.some
    THEN <<"return ">> \o conversion(details.return_conversion.value,
                                     underlying_function_call(details))
    ELSE underlying_function_call(details)

generate_by_value_wrapper(details) ==
    LET declaration == wrapper_declaration(details)
        definition == declaration \o <<" { ">> \o wrapped_call(details) \o <<"; }">>
    IN  AdditionalFunction(declaration \o <<";">>, definition, <<system("memory")>>)

\* one turn of add_needs' loop: the functions pushed for one need
pushed_for(need) ==
    CASE need.kind = "MakeStringConstructor" -> <<generate_string_constructor>>
      [] need.kind = "FunctionWrapper" -> <<generate_by_value_wrapper(need.details)>>

RECURSIVE add_needs(_, _)
add_needs(functions, additions) ==
    IF additions = <<>> THEN functions
    ELSE add_needs(functions \o pushed_for(Head(additions)), Tail(additions))

\* the HashSet<Header> collected from every function's headers
collect_headers(functions) ==
    Range(Flatten([i \in 1..Len(functions) |-> functions[i].headers]))

\* the headers kept in a Vec: nothing removes the repeated ones
header_iter_vec(functions) ==
    {Flatten([i \in 1..Len(functions) |-> functions[i].headers])}

\* headers.iter(): a HashSet with the default hasher is iterated in an order
\* that depends on the hasher's random keys, so any order can come out
header_iter(functions) ==
    LET set == collect_headers(functions)
    IN  {order \in [1..Cardinality(set) -> set] :
            \A i, j \in 1..Cardinality(set) : i # j => order[i] # order[j]}

\* concat_additional_items walking the functions from the last to the first
concat_reversed(functions, field) ==
    Join([i \in 1..Len(functions) |-> functions[Len(functions) + 1 - i][field]], "\n")
        \o <<"\n">>

concat_additional_items(functions, field) ==
    Join([i \in 1..Len(functions) |-> functions[i][field]], "\n") \o <<"\n">>

AdditionalCpp(declarations, definitions) ==
    [declarations |-> declarations, definitions |-> definitions]

\* generate without its is_empty test
generate_unguarded(functions, incl) ==
    {Some(AdditionalCpp(
        Join([i \in 1..Len(order) |-> <<include_stmt(order[i])>>], "\n")
            \o <<"\n", incl, "\n">>
            \o concat_additional_items(functions, "declaration"),
        <<"#include \"autocxxgen.h\"\n">>
            \o concat_additional_items(functions, "definition")))
     : order \in header_iter(functions)}

\* the set of values generate can return
generate(functions, incl) ==
    IF functions = <<>> THEN {None}
    ELSE {Some(AdditionalCpp(
             Join([i \in 1..Len(order) |-> <<include_stmt(order[i])>>], "\n")
                \o <<"\n", incl, "\n">>
                \o concat_additional_items(functions, "declaration"),
             <<"#include \"autocxxgen.h\"\n">>
                \o concat_additional_items(functions, "definition")))
          : order \in header_iter(functions)}

----------------------------------------------------------------------------
(* TypeConversionPolicy, Rust side *)

Panic(msg) == [panic |-> TRUE, msg |-> msg]

Return(v) == [panic |-> FALSE, value |-> v]

\* the tokens a syn::Type is written with
RECURSIVE type_tokens(_)
type_tokens(ty) ==
    CASE ty.kind = "Path" -> <<ty.name>>
      [] ty.kind = "Ptr" -> <<"*", "mut">> \o type_tokens(ty.elem)
      [] ty.kind = "Reference" -> <<"&">> \o type_tokens(ty.elem)

\* the tokens a syn::Pat is written with
pat_tokens(pat) ==
    CASE pat.kind = "Ident" ->
            (IF pat.mutability THEN <<"mut">> ELSE <<>>) \o <<pat.ident>>
      [] pat.kind = "Tuple" -> <<"(">> \o Join([i \in 1..Len(pat.elems) |->
                                    <<pat.elems[i]>>], ",") \o <<")">>
      [] pat.kind = "Lit" -> <<pat.lit>>
      [] pat.kind = "Wild" -> <<"_">>

\* converted_rust_type, id and holder are defined with the policy's analysis;
\* by the design's description a policy without conversion passes its type
\* through, and a subclass names its peer and its holder
converted_rust_type(p) == type_tokens(p.unwrapped_type)

id(sub) == sub

holder(sub) == sub \o "Holder"

\* the pointee taken without looking whether the type is a pointer
pointee_assumed(p) ==
    IF p.unwrapped_type.kind = "Path"
    THEN Return(type_tokens(p.unwrapped_type))
    ELSE Return(type_tokens(p.unwrapped_type.elem))

\* `match &self.unwrapped_type { Type::Ptr(TypePtr { elem, .. }) => elem, _ => panic! }`
pointee(p) ==
    IF p.unwrapped_type.kind = "Ptr"
    THEN Return(type_tokens(p.unwrapped_type.elem))
    ELSE Panic("Not a ptr")

rust_wrapper_unconverted_type(p) ==
    LET conv == p.rust_conversion
    IN  CASE conv.kind = "None" -> Return(converted_rust_type(p))
          [] conv.kind = "ToBoxedUpHolder" ->
                Return(<<"autocxx", "::", "subclass", "::", "CppSubclassRustPeerHolder",
                         "<", "super", "::", "super", "::", "super", "::",
                         id(conv.sub), ">">>)
          [] conv.kind = "FromStr" -> Return(<<"impl", "ToCppString">>)
          [] conv.kind = "FromPinMaybeUninitToPtr" ->
                IF pointee(p).panic THEN pointee(p)
                ELSE Return(<<"::", "std", "::", "pin", "::", "Pin", "<", "&", "mut",
                              "::", "std", "::", "mem", "::", "MaybeUninit", "<">>
                            \o pointee(p).value \o <<">", ">">>)
          [] conv.kind = "FromPinMoveRefToPtr" ->
                IF pointee(p).panic THEN pointee(p)
                ELSE Return(<<"::", "std", "::", "pin", "::", "Pin", "<", "autocxx",
                              "::", "moveit", "::", "MoveRef", "<", "'_", ",">>
                            \o pointee(p).value \o <<">", ">">>)
          [] conv.kind = "FromTypeToPtr" ->
                IF pointee(p).panic THEN pointee(p)
                ELSE Return(<<"&", "mut">> \o pointee(p).value)
          [] conv.kind = "FromValueParamToPtr" ->
                Return(<<"impl", "autocxx", "::", "ValueParam", "<">>
                       \o type_tokens(p.unwrapped_type) \o <<">">>)

\* the name taken from any pattern
var_name_of_any(pat) ==
    IF pat.kind = "Ident" THEN Return(pat.ident) ELSE Return("_")

\* `if let Pat::Ident(pti) = &var { &pti.ident } else { panic!(..) }`
var_name_of(pat) ==
    IF pat.kind = "Ident"
    THEN Return(pat.ident)
    ELSE Panic("Unexpected non-ident parameter name")

\* `call`, left bare whatever wrap_in_unsafe says
populate_call_bare(space_var_name, wrap) ==
    <<space_var_name, ".", "populate", "(", ")">>

\* `call`, wrapped in `unsafe { }` when wrap_in_unsafe
populate_call(space_var_name, wrap) ==
    LET call == <<space_var_name, ".", "populate", "(", ")">>
    IN  IF wrap THEN <<"unsafe", "{">> \o call \o <<"}">> ELSE call

value_param_conversion(pat, wrap) ==
    IF var_name_of(pat).panic THEN var_name_of(pat)
    ELSE LET var_name == var_name_of(pat).value
             space_var_name == var_name \o "_space"
         IN  Return([setup |-> Some(
                        <<"let", "mut", space_var_name, "=", "autocxx", "::",
                          "ValueParamHandler", "::", "new", "(", var_name, ")", ";",
                          "let", space_var_name, "=", "&", "mut", space_var_name, ";">>
                        \o populate_call(space_var_name, wrap)),
                     expr |-> <<space_var_name, ".", "get_ptr", "(", ")">>])

rust_conversion(p, pat, wrap) ==
    LET conv == p.rust_conversion
        v == pat_tokens(pat)
    IN  CASE conv.kind = "None" -> Return([setup |-> None, expr |-> v])
          [] conv.kind = "FromStr" ->
                Return([setup |-> None, expr |-> v \o <<".", "into_cpp", "(", ")">>])
          [] conv.kind = "ToBoxedUpHolder" ->
                Return([setup |-> None,
                        expr |-> <<"Box", "::", "new", "(", holder(conv.sub), "(">>
                                 \o v \o <<")", ")">>])
          [] conv.kind = "FromPinMaybeUninitToPtr" ->
                Return([setup |-> None,
                        expr |-> v \o <<".", "get_unchecked_mut", "(", ")",
                                        ".", "as_mut_ptr", "(", ")">>])
          [] conv.kind = "FromPinMoveRefToPtr" ->
                Return([setup |-> None,
                        expr |-> <<"{", "let", "r", ":", "&", "mut", "_", "=",
                                   "::", "std", "::", "pin", "::", "Pin", "::",
                                   "into_inner_unchecked", "(">>
                                 \o v \o <<".", "as_mut", "(", ")", ")", ";", "r", "}">>])
          [] conv.kind = "FromTypeToPtr" -> Return([setup |-> None, expr |-> v])
          [] conv.kind = "FromValueParamToPtr" -> value_param_conversion(pat, wrap)

----------------------------------------------------------------------------
(* Inputs *)

MakeStringConstructor == [kind |-> "MakeStringConstructor"]

FunctionWrapper(details) == [kind |-> "FunctionWrapper", details |-> details]

CppPolicy(ty, conv) == [unwrapped_type |-> ty, cpp_conversion |-> conv]

CppPolicies ==
    {CppPolicy("int", "None"), CppPolicy("A", "FromUniquePtrToValue"),
     CppPolicy("A", "FromValueToUniquePtr")}

Namespaces == {<<>>, <<"ns1">>, <<"ns1", "ns2">>}

Payloads ==
    {[kind |-> "Constructor"]}
    \cup {[kind |-> "FunctionCall", ns |-> ns, id |-> "foo"] : ns \in Namespaces}
    \cup {[kind |-> "StaticMethodCall", ns |-> ns, ty_id |-> "Ty", fn_id |-> "make"]
            : ns \in Namespaces}

FunctionWrappers ==
    [is_a_method : BOOLEAN,
     wrapper_function_name : {"wrap"},
     argument_conversion : SeqsUpTo(CppPolicies, MaxArgs),
     return_conversion : {None} \cup {Some(p) : p \in {CppPolicy("int", "None"),
                                               CppPolicy("A", "FromValueToUniquePtr")}},
     payload : Payloads]

\* the needs the accumulating runs draw from: the string constructor, a free
\* function returning a value, a method without result, a static method
\* marked as a method although it has no argument, and a constructor
SampleWrappers ==
    {[is_a_method |-> FALSE, wrapper_function_name |-> "wrap",
      argument_conversion |-> <<CppPolicy("int", "None"), CppPolicy("int", "None")>>,
      return_conversion |-> Some(CppPolicy("int", "None")),
      payload |-> [kind |-> "FunctionCall", ns |-> <<>>, id |-> "foo"]],
     [is_a_method |-> TRUE, wrapper_function_name |-> "wrap_method",
      argument_conversion |-> <<CppPolicy("A", "None"), CppPolicy("int", "None")>>,
      return_conversion |-> None,
      payload |-> [kind |-> "FunctionCall", ns |-> <<>>, id |-> "bar"]],
     [is_a_method |-> TRUE, wrapper_function_name |-> "wrap_static",
      argument_conversion |-> <<>>,
      return_conversion |-> Some(CppPolicy("A", "FromValueToUniquePtr")),
      payload |-> [kind |-> "StaticMethodCall", ns |-> <<"ns1">>, ty_id |-> "Ty",
                   fn_id |-> "make"]],
     [is_a_method |-> FALSE, wrapper_function_name |-> "wrap_new",
      argument_conversion |-> <<CppPolicy("A", "FromUniquePtrToValue")>>,
      return_conversion |-> None,
      payload |-> [kind |-> "Constructor"]]}

SampleNeeds == {MakeStringConstructor} \cup {FunctionWrapper(d) : d \in SampleWrappers}

Inclusions == {"#include \"input.h\""}

PathTypes == {[kind |-> "Path", name |-> n] : n \in {"A", "B"}}

RustTypes ==
    PathTypes
    \cup {[kind |-> "Ptr", elem |-> t] : t \in PathTypes}
    \cup {[kind |-> "Reference", elem |-> t] : t \in PathTypes}
    \cup {[kind |-> "Ptr", elem |-> [kind |-> "Ptr", elem |-> t]] : t \in PathTypes}

RustConversionTypes ==
    {[kind |-> k] : k \in {"None", "FromStr", "FromPinMaybeUninitToPtr",
                           "FromPinMoveRefToPtr", "FromTypeToPtr",
                           "FromValueParamToPtr"}}
    \cup {[kind |-> "ToBoxedUpHolder", sub |-> "MySub"]}

RustPolicies == [unwrapped_type : RustTypes, rust_conversion : RustConversionTypes]

Pats ==
    {[kind |-> "Ident", mutability |-> m, ident |-> x] : m \in BOOLEAN, x \in {"x", "y"}}
    \cup {[kind |-> "Tuple", elems |-> <<"a", "b">>], [kind |-> "Lit", lit |-> "1"],
          [kind |-> "Wild"]}

NotCalled == [called |-> FALSE]

----------------------------------------------------------------------------
(* The generator: new, add_needs, generate *)

TotalNeeds(batches) == Len(Flatten(batches))

\* AdditionalCppGenerator::new(inclusions); the conversion inputs are idle
Init ==
    /\ additional_functions = <<>>
    /\ inclusions \in Inclusions
    /\ submitted = <<>>
    /\ generated = NotCalled
    /\ previous = NotCalled
    /\ policy = [unwrapped_type |-> [kind |-> "Path", name |-> "A"],
                 rust_conversion |-> [kind |-> "None"]]
    /\ var = [kind |-> "Wild"]
    /\ wrap_in_unsafe = FALSE
    /\ unconverted = NotCalled
    /\ conversion_rs = NotCalled

AddNeedsCall(additions) ==
    /\ additional_functions' = add_needs(additional_functions, additions)
    /\ submitted' = Append(submitted, additions)
    /\ UNCHANGED <<inclusions, generated, previous, conv_vars>>

AddNeeds ==
    \E additions \in SeqsUpTo(SampleNeeds, MaxBatch) :
        /\ Len(submitted) < MaxCalls
        /\ TotalNeeds(submitted) + Len(additions) <= MaxNeeds
        /\ AddNeedsCall(additions)

\* one function-wrapper need, of any shape, given to a fresh generator
AddWrapper ==
    \E details \in FunctionWrappers :
        /\ submitted = <<>>
        /\ AddNeedsCall(<<FunctionWrapper(details)>>)

Generate ==
    \E result \in generate(additional_functions, inclusions) :
        /\ generated' = [called |-> TRUE, needs |-> TotalNeeds(submitted),
                         result |-> result]
        /\ previous' = generated
        /\ UNCHANGED <<additional_functions, inclusions, submitted, conv_vars>>

Next == AddNeeds \/ Generate

Spec == Init /\ [][Next]_vars

NextWrap == AddWrapper \/ Generate

SpecWrap == Init /\ [][NextWrap]_vars

----------------------------------------------------------------------------
(* The Rust-side conversions, applied to every policy, pattern and flag *)

InitConv ==
    /\ additional_functions = <<>>
    /\ inclusions \in Inclusions
    /\ submitted = <<>>
    /\ generated = NotCalled
    /\ previous = NotCalled
    /\ policy \in RustPolicies
    /\ var \in Pats
    /\ wrap_in_unsafe \in BOOLEAN
    /\ unconverted = NotCalled
    /\ conversion_rs = NotCalled

RustWrapperUnconvertedType ==
    /\ unconverted' = [called |-> TRUE, outcome |-> rust_wrapper_unconverted_type(policy)]
    /\ UNCHANGED <<gen_vars, policy, var, wrap_in_unsafe, conversion_rs>>

RustConversion ==
    /\ conversion_rs' = [called |-> TRUE,
                         outcome |-> rust_conversion(policy, var, wrap_in_unsafe)]
    /\ UNCHANGED <<gen_vars, policy, var, wrap_in_unsafe, unconverted>>

NextConv == RustWrapperUnconvertedType \/ RustConversion

SpecConv == InitConv /\ [][NextConv]_vars

----------------------------------------------------------------------------
(* Vocabulary of the properties *)

AllNeeds == Flatten(submitted)

\* the functions the generator held when generate was called for `call`
FunctionsAt(call) == SubSeq(additional_functions, 1, call.needs)

Suffix(text, n) == SubSeq(text, Len(text) - n + 1, Len(text))

Contains(text, part) ==
    \E k \in 1..(Len(text) - Len(part) + 1) :
        SubSeq(text, k, k + Len(part) - 1) = part

\* each item followed by a newline
Listing(items) == Flatten([i \in 1..Len(items) |-> items[i] \o <<"\n">>])

RequiredHeaders(functions) ==
    UNION {Range(functions[i].headers) : i \in 1..Len(functions)}

----------------------------------------------------------------------------
(* C1 *)

\* C1: generate returns none exactly when no need at all was submitted over
\* all add_needs calls so far; as long as only empty sequences were submitted
\* the generator holds nothing to generate.
C1_NoneIffNoNeeds ==
    /\ generated.called => (~generated.result.some <=> generated.needs = 0)
    /\ previous.called => (~previous.result.some <=> previous.needs = 0)
    /\ TotalNeeds(submitted) = 0 => additional_functions = <<>>

\* generate returned none after an empty submission, and something once a
\* need had been submitted
C1_Witness ==
    /\ previous.called /\ ~previous.result.some
    /\ generated.called /\ generated.result.some
    /\ \E i \in 1..Len(submitted) : submitted[i] = <<>>

----------------------------------------------------------------------------
(* C2 *)

\* what a need's function is recognised by: the string constructor by its
\* fixed prototype, a wrapper by the name its spec gives it
MadeFor(need, function) ==
    IF need.kind = "MakeStringConstructor"
    THEN function.declaration =
            <<"std::unique_ptr<std::string> make_string(::rust::Str str)", ";">>
    ELSE /\ Len(function.declaration) >= 3
         /\ function.declaration[3] = need.details.wrapper_function_name

ListedInOrder(call) ==
    LET functions == FunctionsAt(call)
        declarations == Listing([i \in 1..Len(functions) |-> functions[i].declaration])
        definitions == Listing([i \in 1..Len(functions) |-> functions[i].definition])
        out == call.result.value
    IN  /\ Len(out.declarations) >= Len(declarations)
        /\ Suffix(out.declarations, Len(declarations)) = declarations
        /\ Len(out.definitions) >= Len(definitions)
        /\ Suffix(out.definitions, Len(definitions)) = definitions
        /\ Len(out.definitions) = Len(definitions) + 1

\* C2: the generator holds exactly one function per submitted need, in the
\* order of submission across all calls, also after generate has run; and
\* generate lists the declarations and the definitions in that order.
C2_OnePerNeedInOrder ==
    /\ Len(additional_functions) = Len(AllNeeds)
    /\ \A i \in 1..Len(AllNeeds) : MadeFor(AllNeeds[i], additional_functions[i])
    /\ (generated.called /\ generated.result.some) => ListedInOrder(generated)

\* generate has listed the functions of two different needs, a string
\* constructor after a wrapper, submitted in two calls
C2_Witness ==
    /\ generated.called /\ generated.result.some /\ generated.needs = 2
    /\ Len(submitted) = 2 /\ submitted[1] # <<>> /\ submitted[2] # <<>>
    /\ AllNeeds[1].kind = "FunctionWrapper"
    /\ AllNeeds[2].kind = "MakeStringConstructor"
    /\ Len(additional_functions) = 2

----------------------------------------------------------------------------
(* C3 *)

IncludeLines(text) ==
    SelectSeq(text, LAMBDA t : t \in {include_stmt(h) :
                h \in {system("memory"), system("string"), user("cxx.h")}})

\* C3: the declarations generate returns hold the include statement of every
\* header some accumulated function requires exactly once, and no other.
C3_HeadersOnce ==
    (generated.called /\ generated.result.some) =>
        LET text == generated.result.value.declarations
            required == RequiredHeaders(FunctionsAt(generated))
        IN  /\ \A h \in required : Count(include_stmt(h), text) = 1
            /\ Len(IncludeLines(text)) = Cardinality(required)

\* two functions that both require <memory>, one of them two more headers
C3_Witness ==
    /\ generated.called /\ generated.result.some /\ generated.needs = 2
    /\ Cardinality(RequiredHeaders(FunctionsAt(generated))) = 3
    /\ \A i \in 1..2 : system("memory") \in Range(additional_functions[i].headers)

----------------------------------------------------------------------------
(* C4 *)

\* system headers before local ones, then by name
FixedOrder == <<system("memory"), system("string"), user("cxx.h")>>

\* C4: the include lines come in the fixed order, and two generate calls over
\* the same needs return the same text.
C4_StableHeaderOrder ==
    /\ (generated.called /\ generated.result.some) =>
            IncludeLines(generated.result.value.declarations) =
                LET required == RequiredHeaders(FunctionsAt(generated))
                    kept == SelectSeq(FixedOrder, LAMBDA h : h \in required)
                IN  [i \in 1..Len(kept) |-> include_stmt(kept[i])]
    /\ (generated.called /\ previous.called /\ generated.needs = previous.needs) =>
            generated.result = previous.result

----------------------------------------------------------------------------
(* C5 *)

\* a wrapper spec marked as a method that has no argument to be the receiver
ReceiverMissing(need) ==
    /\ need.kind = "FunctionWrapper"
    /\ need.details.is_a_method
    /\ need.details.argument_conversion = <<>>

\* C5: a function-wrapper need marked as a method without any argument
\* conversion policy is rejected: no function is appended for it.
C5_ReceiverlessMethodRejected ==
    Len(additional_functions) =
        Cardinality({i \in 1..Len(AllNeeds) : ~ReceiverMissing(AllNeeds[i])})

----------------------------------------------------------------------------
(* C9 *)

\* the statement between the braces of a wrapper's definition
Body(function) ==
    LET text == function.definition
        open == CHOOSE k \in 1..Len(text) : text[k] = " { "
    IN  SubSeq(text, open + 1, Len(text) - 1)

\* the name of the i-th declared parameter (i from 1): each parameter takes
\* the pieces type, blank, name and is followed by a separator
DeclaredName(function, i) == function.declaration[4 * i + 3]

ExpectedName(details, i) ==
    IF i = 1 /\ details.is_a_method
    THEN "autocxx_gen_this"
    ELSE "arg" \o ToString(i - 1)

Conv(details, i) ==
    conversion(details.argument_conversion[i], <<ExpectedName(details, i)>>)

ExpectedCall(details) ==
    LET n == Len(details.argument_conversion)
        payload == details.payload
    IN  IF details.is_a_method
        THEN Conv(details, 1) \o <<".", payload.id, "(">>
                \o Join([i \in 1..(n - 1) |-> Conv(details, i + 1)], ", ") \o <<")">>
        ELSE Join([i \in 1..Len(payload.ns) |-> <<payload.ns[i]>>] \o <<<<payload.id>>>>,
                  "::")
                \o <<"(">> \o Join([i \in 1..n |-> Conv(details, i)], ", ") \o <<")">>

WrapperAsDescribed(details, function) ==
    LET n == Len(details.argument_conversion)
        ret == details.return_conversion
    IN  /\ \A i \in 1..n : DeclaredName(function, i) = ExpectedName(details, i)
        /\ (function.declaration[1] = "void") <=> ~ret.some
        /\ (Body(function) # <<>> /\ Head(Body(function)) = "return ") <=> ret.some
        /\ details.payload.kind = "FunctionCall" =>
                Body(function) =
                    IF ret.some
                    THEN <<"return ">> \o conversion(ret.value, ExpectedCall(details))
                    ELSE ExpectedCall(details)

\* C9: for a function-wrapper need with at least one policy, parameter 0 is
\* named autocxx_gen_this when the spec is a method and parameter i is named
\* arg<i> otherwise; a FunctionCall payload calls <receiver>.<id>(<others>)
\* with a receiver and <ns::...::id>(<all>) without; the call is returned
\* through the return conversion exactly when there is a return policy, and
\* is a bare statement of a void function otherwise.
C9_WrapperShape ==
    \A i \in 1..Len(additional_functions) :
        (/\ AllNeeds[i].kind = "FunctionWrapper"
         /\ AllNeeds[i].details.argument_conversion # <<>>)
            => WrapperAsDescribed(AllNeeds[i].details, additional_functions[i])

\* a method call with a receiver, one more argument and a converted result
C9_Witness ==
    /\ Len(additional_functions) = 1
    /\ AllNeeds[1].kind = "FunctionWrapper"
    /\ AllNeeds[1].details.is_a_method
    /\ AllNeeds[1].details.payload.kind = "FunctionCall"
    /\ Len(AllNeeds[1].details.argument_conversion) = 2
    /\ AllNeeds[1].details.return_conversion.some
    /\ AllNeeds[1].details.return_conversion.value.cpp_conversion # "None"

----------------------------------------------------------------------------
(* C10 *)

\* the positions at which the declared parameters occur in the body
Uses(details, function) ==
    LET body == Body(function)
        names == {ExpectedName(details, i) : i \in 1..Len(details.argument_conversion)}
    IN  SelectSeq(body, LAMBDA t : t \in names)

\* C10: whatever the payload and the method flag, every declared parameter is
\* used exactly once in the call, in declaration order.
C10_EveryParameterUsed ==
    \A i \in 1..Len(additional_functions) :
        AllNeeds[i].kind = "FunctionWrapper" =>
            Uses(AllNeeds[i].details, additional_functions[i]) =
                [k \in 1..Len(AllNeeds[i].details.argument_conversion) |->
                    ExpectedName(AllNeeds[i].details, k)]

----------------------------------------------------------------------------
(* C6 *)

PointerDeriving == {"FromPinMaybeUninitToPtr", "FromPinMoveRefToPtr", "FromTypeToPtr"}

\* C6: for the three pointer-deriving conversions rust_wrapper_unconverted_type
\* fails, returning no type, when the unwrapped type is no pointer; when it is
\* one, the type returned is built around the pointee, the pointer itself gone.
C6_PointerDemanded ==
    (unconverted.called /\ policy.rust_conversion.kind \in PointerDeriving) =>
        IF policy.unwrapped_type.kind = "Ptr"
        THEN /\ ~unconverted.outcome.panic
             /\ Contains(unconverted.outcome.value, type_tokens(policy.unwrapped_type.elem))
             /\ ~Contains(unconverted.outcome.value, type_tokens(policy.unwrapped_type))
        ELSE unconverted.outcome.panic

\* a pinned move reference was asked of a policy whose type is a reference
C6_Witness ==
    /\ unconverted.called
    /\ policy.rust_conversion.kind = "FromPinMoveRefToPtr"
    /\ policy.unwrapped_type.kind = "Reference"
    /\ unconverted.outcome.panic

----------------------------------------------------------------------------
(* C7 *)

\* C7: rust_conversion fails, returning neither setup nor expression, exactly
\* when the policy is FromValueParamToPtr and the bound name is no identifier
\* pattern; no other conversion fails on any pattern.
C7_IdentifierDemanded ==
    conversion_rs.called =>
        (conversion_rs.outcome.panic <=>
            (policy.rust_conversion.kind = "FromValueParamToPtr" /\ var.kind # "Ident"))

\* a value parameter bound by a tuple pattern
C7_Witness ==
    /\ conversion_rs.called
    /\ policy.rust_conversion.kind = "FromValueParamToPtr"
    /\ var.kind = "Tuple"
    /\ conversion_rs.outcome.panic

----------------------------------------------------------------------------
(* C8 *)

ValueParamAsDescribed(out) ==
    LET x == var.ident
        x_space == x \o "_space"
        populate == <<x_space, ".", "populate", "(", ")">>
    IN  /\ out.setup.some
        /\ Contains(out.setup.value, <<"let", "mut", x_space, "=">>)
        /\ Contains(out.setup.value, <<"(", x, ")">>)
        /\ Contains(out.setup.value, populate)
        /\ Contains(out.setup.value, <<"unsafe", "{">> \o populate \o <<"}">>)
                <=> wrap_in_unsafe
        /\ Count("unsafe", out.setup.value) = IF wrap_in_unsafe THEN 1 ELSE 0
        /\ out.expr = <<x_space, ".", "get_ptr", "(", ")">>

\* C8: whenever rust_conversion returns, it returns a setup statement exactly
\* for FromValueParamToPtr; for bound identifier x that setup declares and
\* populates x_space, the expression is x_space.get_ptr(), and the populate
\* call is inside an unsafe block exactly when wrap_in_unsafe holds. For None
\* and FromTypeToPtr the expression is the bound name unchanged.
C8_SetupOnlyForValueParam ==
    (conversion_rs.called /\ ~conversion_rs.outcome.panic) =>
        LET out == conversion_rs.outcome.value
            kind == policy.rust_conversion.kind
        IN  /\ out.setup.some <=> kind = "FromValueParamToPtr"
            /\ kind = "FromValueParamToPtr" => ValueParamAsDescribed(out)
            /\ kind \in {"None", "FromTypeToPtr"} => out.expr = pat_tokens(var)

\* a value parameter bound as x, converted under wrap_in_unsafe
C8_Witness ==
    /\ conversion_rs.called
    /\ policy.rust_conversion.kind = "FromValueParamToPtr"
    /\ var.kind = "Ident" /\ var.ident = "x"
    /\ wrap_in_unsafe
    /\ ~conversion_rs.outcome.panic

====
